---- MODULE Spec2Model ----
(***************************************************************************)
(* Model of script_writeback.py: fetch an ABAP source from an ADT server,  *)
(* run abap-cleaner on it and either save it locally (test) or write it    *)
(* back (writeback / writeback_noact).                                     *)
(*                                                                         *)
(* Strings are sequences of tokens.  A token is either one character that  *)
(* the code treats specially ("/", ":", "?", "\n", ...) or a word of       *)
(* characters that no function of the program treats specially.            *)
(***************************************************************************)
EXTENDS Integers, Sequences, FiniteSets, TLC

\* ------------------------------------------------------------------------
\* Bounds of the model
\* ------------------------------------------------------------------------
\* Longest list of raw locators (--url arguments plus urls-file lines).
MaxRaw == 2

\* ------------------------------------------------------------------------
\* String helpers (Python str methods on token sequences)
\* ------------------------------------------------------------------------
None == "None"

RECURSIVE lstrip(_, _)
lstrip(s, chars) ==
    IF s # << >> /\ Head(s) \in chars THEN lstrip(Tail(s), chars) ELSE s

RECURSIVE rstrip(_, _)
rstrip(s, chars) ==
    IF s # << >> /\ s[Len(s)] \in chars
    THEN rstrip(SubSeq(s, 1, Len(s) - 1), chars)
    ELSE s

strip(s, chars) == lstrip(rstrip(s, chars), chars)

\* Index of the first token of s that lies in chars, Len(s) + 1 if none.
RECURSIVE FindFirst(_, _, _)
FindFirst(s, chars, i) ==
    IF i > Len(s) THEN Len(s) + 1
    ELSE IF s[i] \in chars THEN i
    ELSE FindFirst(s, chars, i + 1)

\* str.split(sep): the pieces between the separators, empty pieces included.
RECURSIVE split(_, _)
split(s, sep) ==
    LET i == FindFirst(s, {sep}, 1)
    IN  IF i > Len(s) THEN << s >>
        ELSE << SubSeq(s, 1, i - 1) >> \o split(SubSeq(s, i + 1, Len(s)), sep)

\* sep.join(pieces)
RECURSIVE join(_, _)
join(pieces, sep) ==
    IF pieces = << >> THEN << >>
    ELSE IF Len(pieces) = 1 THEN pieces[1]
    ELSE pieces[1] \o << sep >> \o join(Tail(pieces), sep)

\* [x for x in pieces if x]
RECURSIVE NonEmpty(_)
NonEmpty(pieces) ==
    IF pieces = << >> THEN << >>
    ELSE IF Head(pieces) = << >> THEN NonEmpty(Tail(pieces))
    ELSE << Head(pieces) >> \o NonEmpty(Tail(pieces))

\* True iff sub occurs in s as a contiguous run of tokens ("sub in s").
Contains(s, sub) ==
    \E i \in 1..(Len(s) - Len(sub) + 1) : SubSeq(s, i, i + Len(sub) - 1) = sub

\* ------------------------------------------------------------------------
\* safe_filename
\* ------------------------------------------------------------------------
\* The characters of the class [<>:"/\\|?*\x00-\x1F]; "\n" stands for the
\* control characters.
ReservedChars == {"<", ">", ":", "\"", "/", "\\", "|", "?", "*", "\n"}

\* Mutant of safe_filename: without the placeholder of an empty result.
safe_filename_no_placeholder(s) ==
    strip([i \in 1..Len(s) |-> IF s[i] \in ReservedChars THEN "_" ELSE s[i]],
          {" ", "."})

safe_filename(s) ==
    LET subbed == [i \in 1..Len(s) |-> IF s[i] \in ReservedChars THEN "_" ELSE s[i]]
        stripped == strip(subbed, {" ", "."})
    IN  IF stripped = << >> THEN << "unnamed" >> ELSE stripped

\* ------------------------------------------------------------------------
\* urllib.parse on token sequences
\* ------------------------------------------------------------------------
\* The tokens that are no words: the special characters of the model.
Special == ReservedChars \cup {"#", " ", ".", "_", "&", "=", ";", "\t"}
IsWord(t) == t \notin Special

\* The tokens of s that do not lie in chars.
RECURSIVE Remove(_, _)
Remove(s, chars) ==
    IF s = << >> THEN << >>
    ELSE (IF Head(s) \in chars THEN << >> ELSE << Head(s) >>) \o Remove(Tail(s), chars)

\* urlparse(u), in the steps of urlsplit.  Leading blanks and control
\* characters are stripped and newlines removed; a scheme is a leading run
\* of words and "." that starts with a word and is followed by ":"; a netloc
\* follows "//" and runs to the next "/", "?" or "#"; the path ends at the
\* first "#" or "?", the query follows the "?".
\* The scheme of url, whose first ":" stands at colon; << >> without one.
SchemeOf(url, colon) ==
    IF /\ 1 < colon /\ colon <= Len(url)
       /\ IsWord(url[1])
       /\ \A j \in 1..(colon - 1) : IsWord(url[j]) \/ url[j] = "."
    THEN SubSeq(url, 1, colon - 1)
    ELSE << >>

\* The index at which the netloc of rest ends: 1 when rest has no "//".
NetlocEnd(rest) ==
    IF Len(rest) >= 2 /\ rest[1] = "/" /\ rest[2] = "/"
    THEN FindFirst(rest, {"/", "?", "#"}, 3)
    ELSE 1

\* url.split("?", 1) of what follows the netloc, q the index of the "?".
SplitQuery(scheme, netloc, url, q) ==
    [scheme |-> scheme, netloc |-> netloc,
     path   |-> SubSeq(url, 1, q - 1),
     query  |-> SubSeq(url, q + 1, Len(url))]

\* _splitnetloc(url, 2) and url.split("#", 1)
SplitNetloc(scheme, rest, nlEnd) ==
    SplitQuery(scheme,
               IF nlEnd >= 3 THEN SubSeq(rest, 3, nlEnd - 1) ELSE << >>,
               SubSeq(rest, nlEnd, FindFirst(rest, {"#"}, nlEnd) - 1),
               FindFirst(SubSeq(rest, nlEnd, FindFirst(rest, {"#"}, nlEnd) - 1),
                         {"?"}, 1))

\* scheme, url = url[:i], url[i+1:]
SplitScheme(url, scheme) ==
    IF scheme = << >> THEN SplitNetloc(scheme, url, NetlocEnd(url))
    ELSE SplitNetloc(scheme, SubSeq(url, Len(scheme) + 2, Len(url)),
                     NetlocEnd(SubSeq(url, Len(scheme) + 2, Len(url))))

urlsplit(url) == SplitScheme(url, SchemeOf(url, FindFirst(url, {":"}, 1)))

urlparse(u) == urlsplit(Remove(lstrip(u, {" ", "\n"}), {"\n"}))

\* urlunparse / urlunsplit of (scheme, netloc, path, query).
urlunparse(scheme, netloc, path, query) ==
    (IF scheme # << >> THEN scheme \o << ":" >> ELSE << >>)
    \o (IF netloc # << >> THEN << "/", "/" >> \o netloc ELSE << >>)
    \o path
    \o (IF query # << >> THEN << "?" >> \o query ELSE << >>)

is_absolute_url(s) ==
    LET p == urlparse(s) IN p.scheme # << >> /\ p.netloc # << >>

\* urljoin(base, url) for a url that has no scheme, no netloc and no leading
\* "/" (the only urls build_source_items passes: it strips the leading
\* slashes).  The last segment of the base path is dropped, the url's
\* segments are appended and empty segments in between are filtered out.
\* The locators of the model hold no "." or ".." segment.
urljoin(base, url) ==
    IF url = << >> THEN base
    ELSE
    LET b == urlparse(base)
        u == urlparse(url)
        bparts == split(b.path, "/")
        base_parts == IF bparts[Len(bparts)] # << >>
                      THEN SubSeq(bparts, 1, Len(bparts) - 1) ELSE bparts
        segments == base_parts \o split(u.path, "/")
        n == Len(segments)
        filtered == IF n <= 2 THEN segments
                    ELSE << segments[1] >> \o NonEmpty(SubSeq(segments, 2, n - 1))
                         \o << segments[n] >>
        joined == join(filtered, "/")
    IN  urlunparse(b.scheme, b.netloc,
                   IF joined = << >> THEN << "/" >> ELSE joined, u.query)

\* add_query_param(url, key, value) for a url without query and fragment:
\* the query becomes "key=value".
add_query_param(url, key, value) ==
    LET s == urlparse(url)
    IN  urlunparse(s.scheme, s.netloc, s.path,
                   (IF s.query # << >> THEN s.query \o << "&" >> ELSE << >>)
                   \o << key, "=", value >>)

\* ------------------------------------------------------------------------
\* label_from_url
\* ------------------------------------------------------------------------
\* The two-segment markers, in the order the code tries them.
Markers == << << <<"programs">>, <<"programs">> >>,
              << <<"oo">>, <<"classes">> >>,
              << <<"oo">>, <<"interfaces">> >>,
              << <<"ddic">>, <<"tables">> >>,
              << <<"ddic">>, <<"structures">> >>,
              << <<"ddic">>, <<"dataelements">> >>,
              << <<"ddic">>, <<"domains">> >> >>

\* after(*marker): the part right after the first occurrence of the marker,
\* << >> (for None) when the marker does not occur with a part after it.
after(parts, marker) ==
    LET hits == {i \in 1..(Len(parts) - Len(marker)) :
                    SubSeq(parts, i, i + Len(marker) - 1) = marker}
    IN  IF hits = {} THEN << >>
        ELSE parts[(CHOOSE i \in hits : \A j \in hits : i <= j) + Len(marker)]

RECURSIVE FirstAfter(_, _)
FirstAfter(parts, k) ==
    IF k > Len(Markers) THEN << >>
    ELSE IF after(parts, Markers[k]) # << >> THEN after(parts, Markers[k])
    ELSE FirstAfter(parts, k + 1)

label_from_url(u) ==
    LET p == urlparse(u)
        parts == NonEmpty(split(strip(p.path, {"/"}), "/"))
        name == FirstAfter(parts, 1)
        tail == IF Len(parts) >= 4 THEN SubSeq(parts, Len(parts) - 3, Len(parts))
                ELSE parts
    IN  IF name # << >> THEN safe_filename(name)
        ELSE safe_filename(join(tail, "_"))

\* ------------------------------------------------------------------------
\* read_urls_file and build_source_items
\* ------------------------------------------------------------------------
\* read_urls_file on the text of a file: the stripped lines that are not
\* empty and do not start with "#".
read_urls_file(text) ==
    LET lines == split(IF text # << >> /\ text[Len(text)] = "\n"
                       THEN SubSeq(text, 1, Len(text) - 1) ELSE text, "\n")
        stripped == [i \in 1..Len(lines) |-> strip(lines[i], {" "})]
        keep == [i \in 1..Len(lines) |->
                    IF stripped[i] = << >> \/ stripped[i][1] = "#"
                    THEN << >> ELSE stripped[i]]
    IN  IF text = << >> THEN << >> ELSE NonEmpty(keep)

\* "Dedup while preserving order" on the raw strings.
RECURSIVE Dedup(_, _)
Dedup(raw, seen) ==
    IF raw = << >> THEN << >>
    ELSE IF Head(raw) \in seen THEN Dedup(Tail(raw), seen)
    ELSE << Head(raw) >> \o Dedup(Tail(raw), seen \cup {Head(raw)})

\* The absolute locator of one raw locator.
Resolve(base, u) ==
    IF is_absolute_url(u) THEN u
    ELSE urljoin(rstrip(base, {"/"}) \o << "/" >>, lstrip(u, {"/"}))

\* build_source_items once the urls file (if any) has been read: raw is
\* url_args followed by the file's lines.
build_source_items(base, raw) ==
    LET unique == Dedup(raw, {})
    IN  [i \in 1..Len(unique) |->
            [url |-> Resolve(base, unique[i]),
             label |-> label_from_url(Resolve(base, unique[i]))]]

\* ------------------------------------------------------------------------
\* Inputs of the model
\* ------------------------------------------------------------------------
\* --base is BaseUrl with a trailing slash.
BaseUrl == << "https", ":", "/", "/", "host", "/", "sap", "/", "bc", "/", "adt" >>

\* One object in three raw forms that resolve to the same absolute locator,
\* a second object that derives the same label, and an absolute locator
\* outside /sap/bc/adt.
RelZ1 == << "programs", "/", "programs", "/", "Z1", "/", "source", "/", "main" >>
SlashZ1 == << "/" >> \o RelZ1
AbsZ1 == BaseUrl \o SlashZ1
ClsZ1 == << "/", "oo", "/", "classes", "/", "Z1", "/", "source", "/", "main" >>
Foreign == << "https", ":", "/", "/", "host", "/", "x", "/", "Z2" >>

\* The locators given as --url; Foreign comes from the urls file only.
UrlArgs == {SlashZ1, AbsZ1, ClsZ1}

RECURSIVE SeqsUpTo(_, _)
SeqsUpTo(S, n) ==
    IF n = 0 THEN {<< >>}
    ELSE LET shorter == SeqsUpTo(S, n - 1)
         IN  shorter \cup {Append(q, e) : q \in {r \in shorter : Len(r) = n - 1}, e \in S}

Modes == {"test", "writeback", "writeback_noact"}
\* Mutant of WritebackModes: the token is requested in every mode.
EveryMode == Modes
WritebackModes == {"writeback", "writeback_noact"}

\* --corrnr: absent, or a transport request number.
Corrnrs == {None, "DEVK900001"}

\* --urls-file: absent, a file that exists, or a file that does not exist.
NoUrlsFile == << >>
UrlsTxt == << "urls.txt" >>
UrlsFileArgs == {NoUrlsFile, UrlsTxt, << "missing.txt" >>}

\* The text of a urls file: a comment line, the locators one per line (the
\* first one indented), an empty line.
UrlsFileText(lines) ==
    << "#", "urls", "\n" >>
    \o (IF lines = << >> THEN << >> ELSE << " " >> \o join(lines, "\n") \o << "\n" >>)
    \o << "\n" >>

\* The locator lists urls.txt may hold.
UrlsTxtLines == {<< >>, << AbsZ1 >>, << RelZ1, Foreign >>}

\* What the server may answer: the X-CSRF-Token header, the ETag header and
\* the body of an error response.
Tokens == {"T1", "T2"}
ETags == {None, "E1"}
ErrorBodies == { << "error" >>, << "locked in request", " ", "DEVK900123" >> }
\* The strings [A-Z0-9]{10} of the model.
LockIds == {"DEVK900123", "DEVK900001"}

\* The text the server holds for an object, and the normalized form the
\* cleaner prints for a text when it succeeds.
ServerText(url) == << "source of" >> \o url
CleanedText(src) == << "cleaned" >> \o src

\* ------------------------------------------------------------------------
\* State
\* ------------------------------------------------------------------------
VARIABLES
    args,         \* the parsed command line: mode, corrnr, url, urls_file, base
    creds,        \* SAP_USER and SAP_PASS are both set
    urlsText,     \* the text of urls.txt
    tools,        \* which of the cleaner executable and the profile exist
    outdir,       \* the files of the output directory: name -> content
    run,          \* number of the run, the run_id of its file names
    pc,           \* position of main()
    exit,         \* None, or why the run was aborted
    items,        \* the list of SourceItems
    idx,          \* position of the loop in items
    csrf_token, source, etag, cleaned,
    ok, fail, failures, retry_urls,
    naming,       \* a string, and the file name and the label derived from it
    events,       \* what this run did so far: its steps and their requests
    cleanerRuns,  \* how often this run started the cleaner executable
    prevRetry     \* retry_urls of the run before this one

vars == << args, creds, urlsText, tools, outdir, run, pc, exit, items, idx,
           csrf_token, source, etag, cleaned, ok, fail, failures, retry_urls,
           events, cleanerRuns, prevRetry, naming >>

environment == << creds, urlsText, tools >>
locals == << csrf_token, source, etag, cleaned >>
counters == << ok, fail, failures, retry_urls >>

\* ------------------------------------------------------------------------
\* Files of the output directory
\* ------------------------------------------------------------------------
RunIds == << "run1", "run2", "run3" >>
fail_log == << "failures_", RunIds[run], ".txt" >>
fail_json == << "failures_", RunIds[run], ".jsonl" >>
retry_file == << "retry_urls_", RunIds[run], ".txt" >>
out_path(label) == safe_filename(label) \o << ".abap" >>

NoFiles == [n \in {} |-> << >>]

\* Mutant of AppendFile: the file is opened with "w", not "a".
AppendFileTruncating(fs, name, content) ==
    [n \in DOMAIN fs \cup {name} |-> IF n = name THEN content ELSE fs[n]]

\* open(name, "a").write(content)
AppendFile(fs, name, content) ==
    IF name \in DOMAIN fs THEN [fs EXCEPT ![name] = @ \o content]
    ELSE [n \in DOMAIN fs \cup {name} |-> IF n = name THEN content ELSE fs[n]]

\* Path(name).write_text(content)
WriteFile(fs, name, content) ==
    [n \in DOMAIN fs \cup {name} |-> IF n = name THEN content ELSE fs[n]]

\* Path(urls_file).exists() and its text: urls.txt lies outside the output
\* directory, a retry file of an earlier run inside it.
UrlsFileExists == args.urls_file = UrlsTxt \/ args.urls_file \in DOMAIN outdir
UrlsFileContent == IF args.urls_file = UrlsTxt THEN urlsText ELSE outdir[args.urls_file]

\* ------------------------------------------------------------------------
\* Steps and requests
\* ------------------------------------------------------------------------
\* A request as the server sees it, with the header of the response the
\* code reads (X-CSRF-Token or ETag).
Request(method, url, csrf, ifmatch, body, resp) ==
    [method |-> method, url |-> url, csrf |-> csrf, ifmatch |-> ifmatch,
     body |-> body, resp |-> resp]

NoRequest == Request(None, << >>, None, None, << >>, None)

\* One step of the run: for which item (0: for none), which step, whether
\* it succeeded and the request it sent.
Event(item, step, succeeded, req) ==
    [item |-> item, step |-> step, success |-> succeeded, req |-> req]

\* ------------------------------------------------------------------------
\* No string has been handed to safe_filename or label_from_url.
NoNaming == [text |-> << >>, filename |-> << >>, label |-> << >>]

\* Initial states: a parsed command line and an environment
\* ------------------------------------------------------------------------
Configs ==
    {c \in [mode : Modes, corrnr : Corrnrs, url : SeqsUpTo(UrlArgs, MaxRaw),
            urls_file : UrlsFileArgs, base : {BaseUrl \o << "/" >>}] :
        \* the code reads --corrnr in the writeback modes only
        c.mode = "test" => c.corrnr = None}

Init ==
    /\ args \in Configs
    /\ creds \in BOOLEAN
    /\ \E lines \in UrlsTxtLines :
          /\ Len(args.url) + Len(lines) <= MaxRaw
          /\ (args.urls_file # UrlsTxt => lines = << >>)
          /\ (args.urls_file = UrlsTxt /\ args.url # << >> => lines # << >>)
          /\ urlsText = UrlsFileText(lines)
    /\ tools \in {[cleaner |-> TRUE, profile |-> TRUE],
                  [cleaner |-> FALSE, profile |-> TRUE],
                  [cleaner |-> TRUE, profile |-> FALSE]}
    /\ outdir = NoFiles
    /\ run = 1
    /\ pc = "start"
    /\ exit = None
    /\ items = << >>
    /\ idx = 0
    /\ csrf_token = None
    /\ source = << >>
    /\ etag = None
    /\ cleaned = << >>
    /\ ok = 0
    /\ fail = 0
    /\ failures = << >>
    /\ retry_urls = << >>
    /\ events = << >>
    /\ cleanerRuns = 0
    /\ prevRetry = << >>
    /\ naming = NoNaming

\* raise SystemExit(...), or an exception that nothing catches.
Abort(why) ==
    /\ pc' = "exit"
    /\ exit' = why

\* ------------------------------------------------------------------------
\* main(): startup
\* ------------------------------------------------------------------------
\* Mutant of CheckCredentials: the run goes on without credentials.
CheckCredentialsSkipped ==
    /\ pc = "start"
    /\ pc' = "outdir"
    /\ UNCHANGED << args, environment, naming, outdir, run, exit, items, idx, locals,
                    counters, events, cleanerRuns, prevRetry >>

\* os.getenv("SAP_USER"), os.getenv("SAP_PASS")
CheckCredentials ==
    /\ pc = "start"
    /\ IF creds THEN pc' = "outdir" /\ exit' = exit ELSE Abort("credentials")
    /\ UNCHANGED << args, environment, naming, outdir, run, items, idx, locals, counters,
                    events, cleanerRuns, prevRetry >>

\* shutil.rmtree(outdir); outdir.mkdir()
PrepareOutdir ==
    /\ pc = "outdir"
    /\ outdir' = NoFiles
    /\ pc' = "items"
    /\ UNCHANGED << args, environment, naming, run, exit, items, idx, locals, counters,
                    events, cleanerRuns, prevRetry >>

\* items = build_source_items(base, args.url, args.urls_file)
BuildSourceItems ==
    /\ pc = "items"
    /\ IF args.urls_file # NoUrlsFile /\ ~UrlsFileExists
       THEN Abort("urls-file") /\ items' = items
       ELSE LET raw == args.url \o (IF args.urls_file # NoUrlsFile
                                    THEN read_urls_file(UrlsFileContent) ELSE << >>)
                built == build_source_items(rstrip(args.base, {"/"}), raw)
            IN  /\ items' = built
                /\ IF built = << >> THEN Abort("no-urls")
                   ELSE pc' = "token" /\ exit' = exit
    /\ UNCHANGED << args, environment, naming, outdir, run, idx, locals, counters,
                    events, cleanerRuns, prevRetry >>

\* csrf_token = None in test mode; the loop starts.
SkipToken ==
    /\ pc = "token"
    /\ args.mode \notin WritebackModes
    /\ csrf_token' = None
    /\ idx' = 1
    /\ pc' = "fetch"
    /\ UNCHANGED << args, environment, naming, outdir, run, exit, items, source, etag,
                    cleaned, counters, events, cleanerRuns, prevRetry >>

\* csrf_token = fetch_csrf_token(s, items[0].url, args.client): the GET
\* fails, or succeeds without the header, or returns a token.
TokenRequest(resp) == Request("GET", items[1].url, "Fetch", None, << >>, resp)

fetch_csrf_token ==
    /\ pc = "token"
    /\ args.mode \in WritebackModes
    /\ \/ /\ events' = Append(events, Event(0, "token", FALSE, TokenRequest(None)))
          /\ Abort("token-http")
          /\ UNCHANGED << csrf_token, idx >>
       \/ /\ events' = Append(events, Event(0, "token", TRUE, TokenRequest(None)))
          /\ Abort("token-missing")
          /\ UNCHANGED << csrf_token, idx >>
       \/ \E t \in Tokens :
             /\ events' = Append(events, Event(0, "token", TRUE, TokenRequest(t)))
             /\ csrf_token' = t
             /\ idx' = 1
             /\ pc' = "fetch"
             /\ exit' = exit
    /\ UNCHANGED << args, environment, naming, outdir, run, items, source, etag, cleaned,
                    counters, cleanerRuns, prevRetry >>

\* ------------------------------------------------------------------------
\* main(): the loop over the items
\* ------------------------------------------------------------------------
\* The next iteration, or the end of the loop.
NextItem ==
    /\ idx' = idx + 1
    /\ pc' = IF idx + 1 > Len(items) THEN "flush" ELSE "fetch"

\* Characters. A token is one special character or a word; the token
\* Padding stands for a run of PaddingLen ordinary characters, so that a
\* message can be longer than the limits at which the code cuts.
Padding == "<padding>"
PaddingLen == 3960
CharLen(t) == IF t = Padding THEN PaddingLen ELSE Len(t)

\* s[:n]: the tokens that fit in n characters; of a token cut in the middle
\* a part is left, which is none of the tokens a pattern is made of.
CutPart == "<cut>"
RECURSIVE Prefix(_, _)
Prefix(s, n) ==
    IF s = << >> \/ n <= 0 THEN << >>
    ELSE IF CharLen(Head(s)) <= n
         THEN << Head(s) >> \o Prefix(Tail(s), n - CharLen(Head(s)))
         ELSE << CutPart >>

\* r.text[:4000]
BodyLimit == 4000
ResponseText(body) == Prefix(body, BodyLimit)

\* msg[:4000]
ErrorLimit == 4000
Truncated(msg) == Prefix(msg, ErrorLimit)

\* \s
Whitespace == {" ", "\n", "\t"}

\* The positions i, j of msg at which "locked in request", whitespace and
\* an identifier [A-Z0-9]{10} (at j) stand.
LockMatches(msg) ==
    {ij \in (DOMAIN msg) \X (DOMAIN msg) :
        /\ msg[ij[1]] = "locked in request"
        /\ ij[2] >= ij[1] + 2
        /\ msg[ij[2]] \in LockIds
        /\ \A k \in (ij[1] + 1)..(ij[2] - 1) : msg[k] \in Whitespace}

\* Mutant of lock_search: the search runs on the stored, cut message.
lock_search_stored(msg) ==
    LET hits == LockMatches(Truncated(msg))
    IN  IF hits = {} THEN None
        ELSE Truncated(msg)[(CHOOSE h \in hits : \A g \in hits : h[1] <= g[1])[2]]

\* re.search(r"locked in request\s+([A-Z0-9]{10})", msg): group 1 of the
\* first match, None without a match.
lock_search(msg) ==
    LET hits == LockMatches(msg)
    IN  IF hits = {} THEN None
        ELSE msg[(CHOOSE h \in hits : \A g \in hits : h[1] <= g[1])[2]]

\* A step of the item raised: except Exception as e records the failure in
\* failures, retry_urls and the two logs, counts it, and the loop continues.
RecordFailure(step, req, msg) ==
    LET it == items[idx]
        lock_corrnr == lock_search(msg)
        entry == [label |-> it.label, url |-> it.url, error |-> Truncated(msg),
                  lock_corrnr |-> lock_corrnr]
        block == << "---", "\n", "LABEL: " >> \o it.label \o << "\n", "URL: " >>
                 \o it.url \o << "\n" >>
                 \o (IF lock_corrnr # None
                     THEN << "LOCKED_IN: ", lock_corrnr, "\n" >> ELSE << >>)
                 \o << "ERROR:", "\n" >> \o msg \o << "\n" >>
    IN  /\ events' = events \o << Event(idx, step, FALSE, req),
                                  Event(idx, "fail += 1", TRUE, NoRequest) >>
        /\ failures' = Append(failures, entry)
        /\ retry_urls' = Append(retry_urls, it.url)
        /\ outdir' = AppendFile(AppendFile(outdir, fail_log, block),
                                fail_json, << entry >>)
        /\ fail' = fail + 1
        /\ ok' = ok
        /\ NextItem

\* The last step of the item succeeded: ok += 1
CountOk(step, req) ==
    /\ events' = events \o << Event(idx, step, TRUE, req),
                              Event(idx, "ok += 1", TRUE, NoRequest) >>
    /\ ok' = ok + 1
    /\ UNCHANGED << fail, failures, retry_urls >>
    /\ NextItem

\* A step of the item succeeded and another one follows.
Proceed(step, req, next) ==
    /\ events' = Append(events, Event(idx, step, TRUE, req))
    /\ pc' = next
    /\ UNCHANGED << idx, counters, outdir >>

\* source, etag = adt_get_text_and_etag(s, it.url, args.client)
FetchRequest(resp) == Request("GET", items[idx].url, None, None, << >>, resp)

adt_get_text_and_etag ==
    /\ pc = "fetch"
    /\ \/ /\ RecordFailure("fetch", FetchRequest(None),
                           << "HTTPError for url: " >> \o items[idx].url)
          /\ UNCHANGED << source, etag >>
       \/ \E tag \in ETags :
             /\ source' = ServerText(items[idx].url)
             /\ etag' = tag
             /\ Proceed("fetch", FetchRequest(tag), "clean")
    /\ UNCHANGED << args, environment, naming, run, exit, items, csrf_token, cleaned,
                    cleanerRuns, prevRetry >>

\* The branch of main() that follows the cleaner.
AfterClean == IF args.mode = "test" THEN "save" ELSE "write"

\* cleaned = run_cleaner(args.cleaner, Path(args.profile), args.release, source)
run_cleaner ==
    /\ pc = "clean"
    /\ \/ /\ ~tools.cleaner
          /\ RecordFailure("clean", NoRequest, << "Cleaner nicht gefunden" >>)
          /\ UNCHANGED << cleaned, cleanerRuns >>
       \/ /\ tools.cleaner /\ ~tools.profile
          /\ RecordFailure("clean", NoRequest, << "Profil nicht gefunden" >>)
          /\ UNCHANGED << cleaned, cleanerRuns >>
       \/ /\ tools.cleaner /\ tools.profile
          /\ cleanerRuns' = cleanerRuns + 1
          /\ \/ /\ RecordFailure("clean", NoRequest, << "Cleaner failed rc" >>)
                /\ UNCHANGED cleaned
             \/ /\ RecordFailure("clean", NoRequest,
                                 << "Cleaner returned empty output." >>)
                /\ UNCHANGED cleaned
             \/ /\ cleaned' = CleanedText(source)
                /\ Proceed("clean", NoRequest, AfterClean)
    /\ UNCHANGED << args, environment, naming, run, exit, items, csrf_token, source, etag,
                    prevRetry >>

\* test mode: out_path.write_text(cleaned); the file cannot be opened
\* (OSError, caught as a failure of the item) or is written.
SaveLocal ==
    /\ pc = "save"
    /\ \/ RecordFailure("save", NoRequest, << "OSError" >>)
       \/ /\ outdir' = WriteFile(outdir, out_path(items[idx].label), cleaned)
          /\ CountOk("save", NoRequest)
    /\ UNCHANGED << args, environment, naming, run, exit, items, locals, cleanerRuns,
                    prevRetry >>

\* writeback modes: if not args.corrnr: raise SystemExit(...); SystemExit is
\* no Exception, the handler of the loop does not catch it.
RequireCorrnr ==
    /\ pc = "write"
    /\ args.corrnr = None
    /\ Abort("corrnr")
    /\ UNCHANGED << args, environment, naming, outdir, run, items, idx, locals, counters,
                    events, cleanerRuns, prevRetry >>

\* Mutant of PutRequest: the PUT does not carry the token.
PutRequestWithoutToken ==
    Request("PUT", add_query_param(items[idx].url, "corrNr", args.corrnr),
            None, IF etag # None THEN etag ELSE "*", cleaned, None)

\* Mutant of PutRequest: the PUT always carries the wildcard.
PutRequestWildcard ==
    Request("PUT", add_query_param(items[idx].url, "corrNr", args.corrnr),
            csrf_token, "*", cleaned, None)

\* adt_put_text(s, put_url, args.client, cleaned, csrf_token, etag)
PutRequest ==
    Request("PUT", add_query_param(items[idx].url, "corrNr", args.corrnr),
            csrf_token, IF etag # None THEN etag ELSE "*", cleaned, None)

\* Mutant of ActivatingModes: writeback_noact activates as well.
ActivatingModesAll == {"writeback", "writeback_noact"}

\* The modes in which main() activates what it wrote.
ActivatingModes == {"writeback"}

\* The bodies of the error responses to a PUT: those of ErrorBodies and a
\* long one that names the locking request after 3960 other characters.
LongLockedBody == << Padding, "locked in request", " ", "DEVK900123" >>
PutErrorBodies == ErrorBodies \cup {LongLockedBody}

adt_put_text ==
    /\ pc = "write"
    /\ args.corrnr # None
    /\ \/ \E body \in PutErrorBodies :
             RecordFailure("put", PutRequest,
                           << "PUT failed", "\n", "URL: " >> \o PutRequest.url
                           \o << "\n", "Response headers: {}", "\n",
                                 "Response body:", "\n" >>
                           \o ResponseText(body))
       \/ IF args.mode \in ActivatingModes
          THEN Proceed("put", PutRequest, "activate")
          ELSE CountOk("put", PutRequest) /\ UNCHANGED outdir
    /\ UNCHANGED << args, environment, naming, run, exit, items, locals, cleanerRuns,
                    prevRetry >>

\* adt_activate_via_service(s, it.url, args.client, csrf_token, args.corrnr)
\* s.split(sep, 1)[0]
BeforeFirst(s, sep) ==
    LET hits == {i \in 1..(Len(s) - Len(sep) + 1) : SubSeq(s, i, i + Len(sep) - 1) = sep}
    IN  IF hits = {} THEN s
        ELSE SubSeq(s, 1, (CHOOSE i \in hits : \A j \in hits : i <= j) - 1)

AdtMarker == << "/", "sap", "/", "bc", "/", "adt" >>

\* The object root of obj_url, the url of the activation service (<< >> when
\* the code raises ValueError instead) and the XML envelope.
ObjectRoot(obj_url) == BeforeFirst(BeforeFirst(obj_url, << "?" >>), << "/", "source", "/" >>)

\* Mutant of ActivationUrl: a path without /sap/bc/adt raises no ValueError.
ActivationUrlUnchecked(obj_url, corrnr) ==
    LET p == urlparse(ObjectRoot(obj_url))
        act_path == BeforeFirst(p.path, AdtMarker) \o AdtMarker
                    \o << "/", "activation" >>
    IN  IF p.scheme = << >> \/ p.netloc = << >>
        THEN << >>
        ELSE add_query_param(
                 add_query_param(urlunparse(p.scheme, p.netloc, act_path, << >>),
                                 "method", "activate"),
                 "corrNr", corrnr)

ActivationUrl(obj_url, corrnr) ==
    LET p == urlparse(ObjectRoot(obj_url))
        rel_uri == p.path
        adt_root_path == BeforeFirst(rel_uri, AdtMarker) \o AdtMarker
        act_path == adt_root_path \o << "/", "activation" >>
    IN  IF p.scheme = << >> \/ p.netloc = << >> \/ ~Contains(rel_uri, AdtMarker)
        THEN << >>
        ELSE add_query_param(
                 add_query_param(urlunparse(p.scheme, p.netloc, act_path, << >>),
                                 "method", "activate"),
                 "corrNr", corrnr)

\* adt_activate(s, base, obj_url, client, csrf_token, corrnr): the url it
\* posts to. main() holds no call of adt_activate.
DirectActivationUrl(obj_url, corrnr) ==
    add_query_param(BeforeFirst(obj_url, << "/", "source", "/" >>)
                    \o << "/", "activation" >>, "corrNr", corrnr)

\* The url main() posts to after the PUT of obj_url in a run of the given
\* mode and corrnr, << >> when it posts nothing.
ActivationOf(mode, obj_url, corrnr) ==
    IF mode \in ActivatingModes THEN ActivationUrl(obj_url, corrnr) ELSE << >>

ActivationBody(obj_url) ==
    << "<adtcore:objectReference adtcore:uri=" >>
    \o urlparse(ObjectRoot(obj_url)).path \o << "/>" >>

ActivateRequest ==
    Request("POST", ActivationUrl(items[idx].url, args.corrnr), csrf_token, None,
            ActivationBody(items[idx].url), None)

adt_activate_via_service ==
    /\ pc = "activate"
    /\ \/ /\ ActivationUrl(items[idx].url, args.corrnr) = << >>
          /\ RecordFailure("activate", NoRequest,
                           << "ValueError: " >> \o items[idx].url)
       \/ /\ ActivationUrl(items[idx].url, args.corrnr) # << >>
          /\ \/ \E body \in ErrorBodies :
                   RecordFailure("activate", ActivateRequest,
                                 << "ACTIVATION failed", "\n", "act_url: " >>
                                 \o ActivateRequest.url
                                 \o << "\n", "Response body:", "\n" >>
                                 \o ResponseText(body))
             \/ CountOk("activate", ActivateRequest) /\ UNCHANGED outdir
    /\ UNCHANGED << args, environment, naming, run, exit, items, locals, cleanerRuns,
                    prevRetry >>

\* ------------------------------------------------------------------------
\* main(): the end of the run
\* ------------------------------------------------------------------------
\* if retry_urls: retry_file.write_text("\n".join(retry_urls) + "\n")
FlushRetryFile ==
    /\ pc = "flush"
    /\ outdir' = IF retry_urls # << >>
                 THEN WriteFile(outdir, retry_file, join(retry_urls, "\n") \o << "\n" >>)
                 ELSE outdir
    /\ pc' = "done"
    /\ UNCHANGED << args, environment, naming, run, exit, items, idx, locals, counters,
                    events, cleanerRuns, prevRetry >>

\* The script is started again on the same output directory, with the retry
\* file of the finished run as its --urls-file.
Rerun ==
    /\ pc = "done"
    /\ retry_file \in DOMAIN outdir
    /\ run < Len(RunIds)
    /\ args' = [args EXCEPT !.url = << >>, !.urls_file = retry_file]
    /\ run' = run + 1
    /\ prevRetry' = retry_urls
    /\ pc' = "start"
    /\ exit' = None
    /\ items' = << >>
    /\ idx' = 0
    /\ csrf_token' = None
    /\ source' = << >>
    /\ etag' = None
    /\ cleaned' = << >>
    /\ ok' = 0
    /\ fail' = 0
    /\ failures' = << >>
    /\ retry_urls' = << >>
    /\ events' = << >>
    /\ cleanerRuns' = 0
    /\ UNCHANGED << environment, naming, outdir >>

Next ==
    \/ CheckCredentials
    \/ PrepareOutdir
    \/ BuildSourceItems
    \/ SkipToken
    \/ fetch_csrf_token
    \/ adt_get_text_and_etag
    \/ run_cleaner
    \/ SaveLocal
    \/ RequireCorrnr
    \/ adt_put_text
    \/ adt_activate_via_service
    \/ FlushRetryFile

\* One run of the script.
Spec == Init /\ [][Next]_vars

\* One run of the script in which every call returns and the process goes
\* on to its next statement.
SpecFair == Spec /\ WF_vars(Next)

\* Runs of the script one after the other, each on the retry file of the
\* run before it.
NextRerun == Next \/ Rerun
SpecRerun == Init /\ [][NextRerun]_vars

\* ------------------------------------------------------------------------
\* safe_filename and label_from_url on arbitrary strings
\* ------------------------------------------------------------------------
\* The strings: up to MaxText characters of NamingChars (a letter, the
\* separators of a url, blank and dot, a reserved character that is no
\* separator, a control character), alone or behind a marker of
\* label_from_url.
MaxText == 3
NamingChars == {"a", "/", ".", " ", ":", "*", "?", "#", "\n"}
NamingPrefixes == {<< >>, << "oo", "/", "classes", "/" >>}
NamingTexts == {p \o t : p \in NamingPrefixes, t \in SeqsUpTo(NamingChars, MaxText)}

InitNaming ==
    /\ naming \in {[NoNaming EXCEPT !.text = t] : t \in NamingTexts}
    /\ pc = "safe_filename"
    /\ args = [base |-> BaseUrl, url |-> << >>, urls_file |-> NoUrlsFile,
               mode |-> "test", corrnr |-> None]
    /\ creds = TRUE
    /\ urlsText = << >>
    /\ tools = [cleaner |-> TRUE, profile |-> TRUE]
    /\ outdir = NoFiles
    /\ run = 1
    /\ exit = None
    /\ items = << >>
    /\ idx = 0
    /\ csrf_token = None
    /\ source = << >>
    /\ etag = None
    /\ cleaned = << >>
    /\ ok = 0
    /\ fail = 0
    /\ failures = << >>
    /\ retry_urls = << >>
    /\ events = << >>
    /\ cleanerRuns = 0
    /\ prevRetry = << >>

\* safe_filename(text)
CallSafeFilename ==
    /\ pc = "safe_filename"
    /\ naming' = [naming EXCEPT !.filename = safe_filename(naming.text)]
    /\ pc' = "label_from_url"
    /\ UNCHANGED << args, environment, outdir, run, exit, items, idx, locals,
                    counters, events, cleanerRuns, prevRetry >>

\* label_from_url(text)
CallLabelFromUrl ==
    /\ pc = "label_from_url"
    /\ naming' = [naming EXCEPT !.label = label_from_url(naming.text)]
    /\ pc' = "named"
    /\ UNCHANGED << args, environment, outdir, run, exit, items, idx, locals,
                    counters, events, cleanerRuns, prevRetry >>

NextNaming == CallSafeFilename \/ CallLabelFromUrl
SpecNaming == InitNaming /\ [][NextNaming]_vars

\* ------------------------------------------------------------------------
\* Properties
\* ------------------------------------------------------------------------
Range(s) == {s[i] : i \in DOMAIN s}
NoDuplicates(s) == \A i, j \in DOMAIN s : i # j => s[i] # s[j]
Urls(its) == [i \in DOMAIN its |-> its[i].url]

\* The events that sent a request, by the kind of the request.
Sent == {k \in DOMAIN events : events[k].req.method # None}
TokenGets == {k \in Sent : events[k].req.method = "GET" /\ events[k].req.csrf = "Fetch"}
Puts == {k \in Sent : events[k].req.method = "PUT"}
Posts == {k \in Sent : events[k].req.method = "POST"}

\* The object endpoint a request goes to: its url without the query.
Endpoint(url) == BeforeFirst(url, << "?" >>)

\* build_source_items has run.
Resolved == pc \notin {"start", "outdir", "items"} /\ exit # "credentials"

\* The raw locators of the first run: --url, then the lines of the urls file.
RawInput == args.url \o (IF args.urls_file = UrlsTxt THEN read_urls_file(urlsText)
                         ELSE << >>)

\* Item i was counted as ok / as a failure.
CountedOk(i) == \E k \in DOMAIN events : events[k].item = i /\ events[k].step = "ok += 1"
CountedFailed(i) == \E k \in DOMAIN events : events[k].item = i /\ events[k].step = "fail += 1"

\* C1: in every mode and for every position of an item, the first included,
\* if the endpoint of that one item answers every request with a non-success
\* status (and every other request succeeds, a token request with a token),
\* the run does not abort; at its end ok + fail is the number of items and
\* the item is counted as exactly one failure.
C1_SingleItemFailureNeverAborts ==
    \A i \in DOMAIN items :
        ( /\ \A j \in DOMAIN items : j # i => items[j].url # items[i].url
          /\ (args.mode \in WritebackModes => args.corrnr # None)
          /\ \E k \in Sent : Endpoint(events[k].req.url) = items[i].url
          /\ \A k \in Sent :
                ~events[k].success <=> Endpoint(events[k].req.url) = items[i].url
          /\ \A k \in TokenGets : events[k].success => events[k].req.resp # None )
        => /\ pc # "exit"
           /\ pc = "done" =>
                 /\ ok + fail = Len(items)
                 /\ Cardinality({k \in DOMAIN failures :
                                    failures[k].url = items[i].url}) = 1

\* C2: a writeback-mode run without a transport identifier sends no request
\* (no token GET, no fetch GET, no PUT, no POST) and does not start the
\* cleaner before it terminates.
C2_NoCorrnrNoNetwork ==
    (args.mode \in WritebackModes /\ args.corrnr = None)
    => (Sent = {} /\ cleanerRuns = 0)

\* C3: a writeback-mode run without a transport identifier never reaches
\* normal completion (the summary and the flush of the retry list), whatever
\* the outcomes of fetch and normalization are, and sends no PUT and no POST.
C3_NoCorrnrAlwaysFatal ==
    (args.mode \in WritebackModes /\ args.corrnr = None)
    => (pc \notin {"flush", "done"} /\ Puts = {} /\ Posts = {})

\* C4: the items build_source_items returns hold no absolute locator twice
\* and keep first-occurrence order: their locators are the resolved raw
\* locators, each kept at its first occurrence only.
C4_ItemsDeduplicated ==
    (run = 1 /\ Resolved /\ exit # "urls-file")
    => /\ NoDuplicates(Urls(items))
       /\ Urls(items) =
             Dedup([i \in DOMAIN RawInput |->
                       Resolve(rstrip(args.base, {"/"}), RawInput[i])], {})

\* C5: at the end of a run the retry list holds the locator of each failed
\* item exactly once, no locator twice, and no locator of an item that was
\* counted ok.
C5_RetryListExact ==
    pc = "done"
    => /\ NoDuplicates(retry_urls)
       /\ \A i \in DOMAIN items :
             /\ CountedFailed(i) => items[i].url \in Range(retry_urls)
             /\ CountedOk(i) => items[i].url \notin Range(retry_urls)

\* C6: a run started on the retry file of the run before it, with the same
\* output directory, does not abort for a missing urls file, and its items
\* are the locators that failed in that run, in the same order.
C6_RetryFileFeedsNextRun ==
    (run > 1 /\ Resolved)
    => (exit # "urls-file" /\ Urls(items) = prevRetry)

\* C7: a run requests the protection token at most once and only in the
\* writeback modes; every PUT and every POST carries the token that request
\* returned; a run whose token request failed or returned no token sends no
\* PUT and no POST.
C7_TokenOnceAndReused ==
    /\ Cardinality(TokenGets) <= 1
    /\ (TokenGets # {} => args.mode \in WritebackModes)
    /\ \A w \in Puts \cup Posts :
          \E t \in TokenGets :
             /\ t < w
             /\ events[t].success
             /\ events[t].req.resp \in Tokens
             /\ events[w].req.csrf = events[t].req.resp
    /\ (\E t \in TokenGets : ~events[t].success \/ events[t].req.resp = None)
          => (Puts = {} /\ Posts = {})

\* A finished writeback run that sent two PUTs and a POST with the token T2.
C7_Witness ==
    /\ pc = "done"
    /\ csrf_token = "T2"
    /\ Cardinality(Puts) >= 2
    /\ Posts # {}

\* C8: when the cleaner executable or the profile does not exist, the run
\* aborts at the first call of the cleaner: the call is the last step of
\* the run, so it is not recorded or counted as a failure of the item, no
\* item is fetched after it and the run does not complete.
C8_MissingToolIsFatal ==
    (~tools.cleaner \/ ~tools.profile)
    => \A k \in DOMAIN events :
          events[k].step = "clean" => (k = Len(events) /\ pc = "exit")

\* C9: the steps of an item follow fetch -> normalize -> write -> activate.
\* A PUT is sent only after the fetch and the normalization of its item
\* succeeded, a POST only after the PUT of its item succeeded and only in
\* mode writeback, and after the first failing step of an item no further
\* step of that item is taken.
C9_StepOrder ==
    \A k \in DOMAIN events :
        LET e == events[k]
            Before(step) == {j \in 1..(k - 1) : /\ events[j].item = e.item
                                                /\ events[j].step = step
                                                /\ events[j].success}
        IN  /\ e.step \in {"clean", "save", "put", "activate"} => Before("fetch") # {}
            /\ e.step \in {"save", "put", "activate"} =>
                  \E c \in Before("clean") : \E f \in Before("fetch") : f < c
            /\ k \in Puts =>
                  /\ e.step = "put"
                  /\ e.req.body = CleanedText(ServerText(items[e.item].url))
            /\ e.step = "activate" => Before("put") # {}
            /\ k \in Posts =>
                  /\ e.step = "activate"
                  /\ args.mode = "writeback"
                  /\ \E p \in Before("put") : p \in Puts
            /\ ~e.success =>
                  \A j \in (k + 1)..Len(events) :
                     events[j].item = e.item => events[j].step = "fail += 1"

\* A finished writeback run in which one item was activated and the PUT of
\* another item failed.
C9_Witness ==
    /\ pc = "done"
    /\ \E k \in Posts : events[k].success
    /\ \E k \in Puts : ~events[k].success

\* C10: a run in mode test sends no token GET, no PUT and no POST: each of
\* its requests is the GET of the text of one of its items.
C10_TestModeReadsOnly ==
    args.mode = "test"
    => \A k \in Sent :
          /\ events[k].req.method = "GET"
          /\ events[k].req.csrf = None
          /\ events[k].step = "fetch"
          /\ events[k].item \in DOMAIN items
          /\ events[k].req.url = items[events[k].item].url

\* A finished run in mode test that saved one item and failed on another.
C10_Witness ==
    /\ pc = "done"
    /\ args.mode = "test"
    /\ ok >= 1
    /\ fail >= 1
    /\ Sent # {}

\* The events of the successful fetches of item i.
FetchesOf(i) == {f \in DOMAIN events : /\ events[f].item = i
                                        /\ events[f].step = "fetch"
                                        /\ events[f].success}

\* C11: every PUT carries as If-Match the ETag that the fetch of the same
\* item returned in the same iteration of the loop: the item has one fetch,
\* it precedes the PUT, and the PUT carries its ETag when it returned one
\* and "*" exactly when it returned none.
C11_PutCarriesFetchedETag ==
    \A w \in Puts :
        /\ Cardinality(FetchesOf(events[w].item)) = 1
        /\ \A f \in FetchesOf(events[w].item) :
              /\ f < w
              /\ events[f].req.resp \in ETags
              /\ events[f].req.resp # None => events[w].req.ifmatch = events[f].req.resp
              /\ (events[w].req.ifmatch = "*") <=> (events[f].req.resp = None)

\* A finished run whose first item was fetched without an ETag and written
\* with "*" and whose second item was fetched and written with the ETag E1.
C11_Witness ==
    /\ pc = "done"
    /\ \E v, w \in Puts :
          /\ events[v].item = 1 /\ events[v].req.ifmatch = "*"
          /\ events[w].item = 2 /\ events[w].req.ifmatch = "E1"

\* The text files of the items in the output directory.
AbapFiles == {n \in DOMAIN outdir : n[Len(n)] = ".abap"}

\* C12: at the end of a run in mode test over distinct locators, the output
\* directory holds one text file per item counted ok, and for every item
\* counted ok the file named after its sanitized label holds the text the
\* cleaner returned for the text fetched for that item.
C12_LocalSaveRoundTrip ==
    (pc = "done" /\ args.mode = "test" /\ NoDuplicates(Urls(items)))
    => /\ Cardinality(AbapFiles) = ok
       /\ \A i \in DOMAIN items :
             CountedOk(i) =>
                /\ out_path(items[i].label) \in AbapFiles
                /\ outdir[out_path(items[i].label)]
                      = CleanedText(ServerText(items[i].url))

\* The lines of the structured log and the blocks of the text log of the run.
JsonLines == IF fail_json \in DOMAIN outdir THEN outdir[fail_json] ELSE << >>
TextBlocks == IF fail_log \in DOMAIN outdir
              THEN {k \in DOMAIN outdir[fail_log] : outdir[fail_log][k] = "---"}
              ELSE {}

\* The items whose loop iteration is over, and those of them a step of
\* which raised.
Processed == IF pc \in {"flush", "done"} THEN DOMAIN items
             ELSE IF pc \in {"fetch", "clean", "save", "write", "activate"}
                     \/ exit = "corrnr"
                  THEN 1..(idx - 1)
                  ELSE {}
Raised(i) == \E k \in DOMAIN events : events[k].item = i /\ ~events[k].success

\* The events that count item i with the given statement.
Counts(i, stmt) == {k \in DOMAIN events : events[k].item = i /\ events[k].step = stmt}

\* C13: after every processed item the record of the run is consistent.
\* Each processed item a step of which raised (fetch, cleaner, local save,
\* PUT or activation) is counted once as a failure and never as ok, each
\* other processed item once as ok and never as a failure; fail is the
\* number of the former, ok of the latter; fail is the number of blocks of
\* the text log, of lines of the structured log and of locators of the retry
\* list, the k-th of each belonging to the k-th failed item; and ok + fail is
\* the number of items processed so far.
C13_RunRecordConsistent ==
    LET failed == {i \in Processed : Raised(i)}
    IN  /\ \A i \in Processed :
              /\ Cardinality(Counts(i, "fail += 1")) = (IF Raised(i) THEN 1 ELSE 0)
              /\ Cardinality(Counts(i, "ok += 1")) = (IF Raised(i) THEN 0 ELSE 1)
        /\ fail = Cardinality(failed)
        /\ ok = Cardinality(Processed \ failed)
        /\ ok + fail = Cardinality(Processed)
        /\ fail = Len(failures)
        /\ fail = Len(retry_urls)
        /\ fail = Len(JsonLines)
        /\ fail = Cardinality(TextBlocks)
        /\ \A k \in 1..fail :
              \E i \in failed :
                 /\ Cardinality({j \in failed : j <= i}) = k
                 /\ retry_urls[k] = items[i].url
                 /\ JsonLines[k] = failures[k]
                 /\ JsonLines[k].url = items[i].url

\* A finished run of two items, one failed at the local save and one at the
\* cleaner, with two lines in the structured log.
C13_Witness ==
    /\ pc = "done"
    /\ fail = 2
    /\ Len(JsonLines) = 2
    /\ \E k \in DOMAIN events : events[k].step = "save" /\ ~events[k].success
    /\ \E k \in DOMAIN events : events[k].step = "clean" /\ ~events[k].success

\* The three fatal inputs of the startup of the first run: no credentials,
\* an --urls-file that does not exist, no locator left after resolution.
NoCredentials == ~creds
UrlsFileMissing == args.urls_file \notin {NoUrlsFile, UrlsTxt}
NoItems == /\ ~UrlsFileMissing
           /\ args.url = << >>
           /\ (args.urls_file = UrlsTxt => read_urls_file(urlsText) = << >>)

\* C14: a run without credentials, with a missing urls file or with an
\* empty list of resolved items never leaves the startup: it sends no
\* request, enters no iteration of the loop, calls no cleaner, counts
\* nothing and writes no failure log and no retry file.
C14_StartupAbortsBeforeWork ==
    (NoCredentials \/ UrlsFileMissing \/ NoItems)
    => /\ pc \in {"start", "outdir", "items", "exit"}
       /\ exit \in {None, "credentials", "urls-file", "no-urls"}
       /\ events = << >>
       /\ idx = 0
       /\ cleanerRuns = 0
       /\ ok = 0 /\ fail = 0
       /\ failures = << >> /\ retry_urls = << >>
       /\ {fail_log, fail_json, retry_file} \cap DOMAIN outdir = {}

\* A run with credentials aborted because its urls file does not exist.
C14_Witness ==
    /\ pc = "exit"
    /\ exit = "urls-file"
    /\ creds
    /\ UrlsFileMissing

\* The k-th block of the text log and the message written to it.
TextBlock(k) ==
    LET log == outdir[fail_log]
        marks == TextBlocks
        start(n) == CHOOSE p \in marks : Cardinality({q \in marks : q <= p}) = n
    IN  SubSeq(log, start(k),
               IF k < Cardinality(marks) THEN start(k + 1) - 1 ELSE Len(log))
Message(block) ==
    SubSeq(block, FindFirst(block, {"ERROR:"}, 1) + 2, Len(block) - 1)

\* The identifiers that stand in msg behind "locked in request" and
\* whitespace.
PatternIds(msg) ==
    {id \in LockIds :
        \E i \in DOMAIN msg :
           /\ msg[i] = "locked in request"
           /\ \E j \in (i + 2)..Len(msg) :
                 /\ msg[j] = id
                 /\ \A k \in (i + 1)..(j - 1) : msg[k] \in Whitespace}

\* C15: for every failed item, if the full error message (the one written
\* to the text log) holds "locked in request", whitespace and an identifier
\* of ten capitals and digits, that identifier is the lock_corrnr of the
\* entry in failures and in the structured log and stands in a LOCKED_IN
\* line of the block of the text log, also when the stored error, cut at
\* 4000 characters, no longer holds it; otherwise lock_corrnr is None and
\* the block has no LOCKED_IN line.
C15_LockIdRecorded ==
    \A k \in DOMAIN failures :
        LET block == TextBlock(k)
            ids == PatternIds(Message(block))
        IN  /\ JsonLines[k] = failures[k]
            /\ IF ids # {}
               THEN /\ failures[k].lock_corrnr \in ids
                    /\ Contains(block, << "LOCKED_IN: ", failures[k].lock_corrnr,
                                          "\n", "ERROR:" >>)
               ELSE /\ failures[k].lock_corrnr = None
                    /\ "LOCKED_IN: " \notin Range(block)

\* A failed item whose message names the locking request DEVK900123 beyond
\* the first 4000 characters: the stored error is cut before it, lock_corrnr
\* and the text log hold it; another failed item has no lock.
C15_Witness ==
    /\ pc = "done"
    /\ \E k \in DOMAIN failures :
          /\ failures[k].lock_corrnr = "DEVK900123"
          /\ PatternIds(failures[k].error) = {}
          /\ failures[k].error[Len(failures[k].error)] = CutPart
          /\ Contains(outdir[fail_log], << "LOCKED_IN: ", "DEVK900123", "\n" >>)
    /\ \E k \in DOMAIN failures : failures[k].lock_corrnr = None

\* The two activation protocols, told by the url of the request: the
\* central service .../sap/bc/adt/activation?method=activate and the path
\* <object>/activation of the object itself.
ServicePath == AdtMarker \o << "/", "activation" >>
IsService(url) ==
    LET path == urlparse(Endpoint(url)).path
    IN  /\ Len(path) >= Len(ServicePath)
        /\ SubSeq(path, Len(path) - Len(ServicePath) + 1, Len(path)) = ServicePath
        /\ Contains(url, << "method", "=", "activate" >>)
IsDirect(url, obj_url) ==
    /\ url # << >>
    /\ Endpoint(url) = Endpoint(DirectActivationUrl(obj_url, "DEVK900001"))
    /\ ~IsService(url)

\* Every POST of a run goes to the central service.
ActivationsViaServiceOnly ==
    \A k \in Posts : /\ IsService(events[k].req.url)
                      /\ ~IsDirect(events[k].req.url, items[events[k].item].url)

\* C16: each of the two activation protocols can be reached from main():
\* when an item has been written and is to be activated, there is a mode of
\* the run in which main() activates it by the POST to the central service
\* (for an item below /sap/bc/adt) and a mode in which it activates it by
\* the POST to <object>/activation.
C16_BothProtocolsReachable ==
    pc = "activate"
    => LET obj_url == items[idx].url
       IN  /\ Contains(obj_url, AdtMarker)
                 => \E m \in Modes :
                       IsService(ActivationOf(m, obj_url, args.corrnr))
           /\ \E m \in Modes :
                 IsDirect(ActivationOf(m, obj_url, args.corrnr), obj_url)

\* A string that is not empty and holds none of the characters of the class
\* of safe_filename.
Sanitized(s) == s # << >> /\ \A i \in DOMAIN s : s[i] \notin ReservedChars

\* C17: for every string, what safe_filename returns is not empty and holds
\* no reserved character, and the label label_from_url returns is such a
\* string too and is the same whenever the string is looked at again.
C17_NamesSanitized ==
    /\ pc \in {"label_from_url", "named"} => Sanitized(naming.filename)
    /\ pc = "named" => /\ Sanitized(naming.label)
                       /\ naming.label = label_from_url(naming.text)

\* The string ?*: of reserved characters only became three underscores as
\* a file name and, its path being empty, the placeholder as a label.
C17_Witness ==
    /\ pc = "named"
    /\ naming.text = << "?", "*", ":" >>
    /\ naming.label = << "unnamed" >>
    /\ naming.filename = << "_", "_", "_" >>

\* The steps an item has to pass in a mode to be counted ok.
RequiredSteps(mode) ==
    IF mode = "test" THEN {"fetch", "clean", "save"}
    ELSE IF mode = "writeback" THEN {"fetch", "clean", "put", "activate"}
    ELSE {"fetch", "clean", "put"}

\* The activations that failed.
FailedActivations == {k \in DOMAIN events : events[k].step = "activate"
                                            /\ ~events[k].success}

\* C18: an item is counted ok only if every step its mode requires
\* succeeded and none raised.  An activation that fails (the POST answered
\* with an error status, or, for a locator without /sap/bc/adt in its path,
\* no POST at all) follows a successful PUT of the item; the item is counted
\* as a failure, not as ok, its locator is on the retry list, and no
\* request is sent for the item afterwards: nothing takes the PUT back.
C18_OkNeedsEveryStep ==
    /\ \A i \in DOMAIN items :
          CountedOk(i) =>
             /\ ~Raised(i)
             /\ \A step \in RequiredSteps(args.mode) :
                   \E k \in DOMAIN events : /\ events[k].item = i
                                             /\ events[k].step = step
                                             /\ events[k].success
    /\ \A k \in DOMAIN events :
          (events[k].step = "activate"
             /\ ~Contains(urlparse(items[events[k].item].url).path, AdtMarker))
          => (k \in FailedActivations /\ events[k].req = NoRequest)
    /\ \A k \in FailedActivations :
          LET i == events[k].item
          IN  /\ args.mode = "writeback"
              /\ \E w \in Puts : w < k /\ events[w].item = i /\ events[w].success
              /\ CountedFailed(i)
              /\ ~CountedOk(i)
              /\ \E r \in DOMAIN retry_urls :
                    /\ retry_urls[r] = items[i].url
                    /\ r = Cardinality({j \in 1..i : Raised(j)})
              /\ \A j \in (k + 1)..Len(events) :
                    events[j].item = i => events[j].req = NoRequest

\* A finished writeback run of two written items: the activation of one was
\* answered with an error, that of the other raised without a request.
C18_Witness ==
    /\ pc = "done"
    /\ ok = 0
    /\ Cardinality({w \in Puts : events[w].success}) = 2
    /\ \E k \in FailedActivations : events[k].req.method = "POST"
    /\ \E k \in FailedActivations : events[k].req = NoRequest

\* The run has passed the checks of the startup and enters the loop; the
\* process has ended.
PassedStartup == pc = "fetch" /\ idx = 1
Terminated == pc \in {"done", "exit"}

\* The items are taken in the order of the list, one at a time and each
\* once, and a run that ended after it entered the loop has written the
\* retry file, with the locators of the failed items, exactly if an item
\* failed.
InOrderOnceAndFlushed ==
    /\ \A j, k \in DOMAIN events : j < k => events[j].item <= events[k].item
    /\ \A i \in DOMAIN items :
          /\ Cardinality(Counts(i, "fetch")) = (IF i \in Processed \/ (i = idx /\ pc # "fetch")
                                                THEN 1 ELSE 0)
          /\ Cardinality(Counts(i, "ok += 1") \cup Counts(i, "fail += 1"))
                = (IF i \in Processed THEN 1 ELSE 0)
    /\ (Terminated /\ idx >= 1) =>
          /\ (retry_file \in DOMAIN outdir) <=> (fail >= 1)
          /\ fail >= 1 => outdir[retry_file] = join(retry_urls, "\n") \o << "\n" >>

\* What is left of the run: the statements of the startup, then those of
\* the items not yet processed and of the current item, then the flush.
StepsLeft ==
    LET perItem == 5
        inItem == IF pc = "fetch" THEN 4 ELSE IF pc = "clean" THEN 3
                  ELSE IF pc \in {"save", "write"} THEN 2 ELSE 1
        loop == (MaxRaw + 1) * perItem
    IN  IF pc = "start" THEN loop + 5
        ELSE IF pc = "outdir" THEN loop + 4
        ELSE IF pc = "items" THEN loop + 3
        ELSE IF pc = "token" THEN loop + 2
        ELSE IF pc = "flush" THEN 1
        ELSE IF Terminated THEN 0
        ELSE (Len(items) - idx) * perItem + inItem + 1

\* A run that has not ended stands at a statement of main() at which an
\* action of Next can be taken (the guards of SkipToken and
\* fetch_csrf_token, of RequireCorrnr and adt_put_text and of the branches
\* of the other actions are complementary), in the loop at an item of the
\* list.
CanStep ==
    /\ pc \in {"start", "outdir", "items", "token", "fetch", "clean", "save",
               "write", "activate", "flush"}
    /\ pc \in {"fetch", "clean", "save", "write", "activate"} => idx \in DOMAIN items
    /\ pc = "save" => args.mode = "test"
    /\ pc \in {"write", "activate"} => args.mode \in WritebackModes

\* C19: the items are processed in the order of the list, one at a time and
\* each exactly once, and when every call returns a run that has passed the
\* startup checks terminates (a run that has not ended can take a step, and
\* every step leaves less to do), with the retry list flushed exactly if at
\* least one item failed.
C19_InOrderOnceAndTerminates ==
    /\ []InOrderOnceAndFlushed
    /\ [](~Terminated => CanStep)
    /\ [][StepsLeft' < StepsLeft]_vars
====
